---------------------------- MODULE Spec2Model ----------------------------
(***************************************************************************)
(* Dynamic metadata filtering for a knowledge base                         *)
(* (dynamic_metadata_filtering_kb.ipynb).                                  *)
(*                                                                         *)
(* The notebook defines the pydantic models Entity and ExtractedEntities,  *)
(* extract_entities (one model call, scan of the content blocks, parse),   *)
(* construct_metadata_filter (the filter compiler) and process_query (the  *)
(* orchestrator).  Python values are modelled as tagged records, strings   *)
(* as sequences of one-character strings, dicts as insertion-ordered       *)
(* sequences of key/value pairs.  The pydantic semantics are those of the  *)
(* API the notebook uses (validator, parse_obj: pydantic v1).              *)
(***************************************************************************)
EXTENDS Integers, Sequences, FiniteSets, TLC

VARIABLES
    pc,                 \* position of the running call
    text,               \* process_query / extract_entities argument
    tool_properties,    \* process_query / extract_entities argument
    response,           \* the model response of bedrock.converse
    json_entities,      \* the tool input taken from the response (None if none)
    unique_entities,    \* what remove_duplicates returned to pydantic
    extracted_entities, \* result of extract_entities
    metadata_filter,    \* result of construct_metadata_filter
    calls,              \* requests issued to the two endpoints, in order
    raised,             \* the exception that reached the caller ("" if none)
    result,             \* value returned to the caller
    compiled,           \* outcomes of the calls of construct_metadata_filter
    no_filter_policy    \* handling the caller wants when no filter is
                        \* produced (process_query has no parameter for it)

vars == <<pc, text, tool_properties, response, json_entities,
          unique_entities, extracted_entities,
          metadata_filter, calls, raised, result, compiled,
          no_filter_policy>>

---------------------------------------------------------------------------
(* Bounds of the model.                                                    *)

\* longest entity list of a payload / of an ExtractedEntities
MaxEntities == 2
\* most content blocks in one model response
MaxBlocks == 2
\* most calls of the compiler on one ExtractedEntities
MaxCompiles == 2

---------------------------------------------------------------------------
(* Python values.                                                          *)

NoneVal == [t |-> "None", s |-> <<>>, n |-> 0]
StrVal(s) == [t |-> "str", s |-> s, n |-> 0]
IntVal(n) == [t |-> "int", s |-> <<>>, n |-> n]
\* a non-empty JSON array: truthy, unhashable, neither str nor int
ListVal == [t |-> "list", s |-> <<>>, n |-> 0]

\* the literal 'unknown' of the tool description and of the two tests
Unknown == <<"u", "n", "k", "n", "o", "w", "n">>

\* bool(v)
Truthy(v) ==
    CASE v.t = "None" -> FALSE
      [] v.t = "str"  -> v.s # <<>>
      [] v.t = "int"  -> v.n # 0
      [] OTHER        -> TRUE

\* hash(v) succeeds
Hashable(v) == v.t # "list"

Digits == {"0", "1", "2", "3", "4", "5", "6", "7", "8", "9"}

DigitVal(c) ==
    CASE c = "0" -> 0 [] c = "1" -> 1 [] c = "2" -> 2 [] c = "3" -> 3
      [] c = "4" -> 4 [] c = "5" -> 5 [] c = "6" -> 6 [] c = "7" -> 7
      [] c = "8" -> 8 [] c = "9" -> 9

DigitChar(d) ==
    CASE d = 0 -> "0" [] d = 1 -> "1" [] d = 2 -> "2" [] d = 3 -> "3"
      [] d = 4 -> "4" [] d = 5 -> "5" [] d = 6 -> "6" [] d = 7 -> "7"
      [] d = 8 -> "8" [] d = 9 -> "9"

RECURSIVE LStrip(_)
LStrip(s) == IF s # <<>> /\ Head(s) = " " THEN LStrip(Tail(s)) ELSE s

RECURSIVE RStrip(_)
RStrip(s) ==
    IF s # <<>> /\ s[Len(s)] = " " THEN RStrip(SubSeq(s, 1, Len(s) - 1)) ELSE s

RECURSIVE DigitsValue(_)
DigitsValue(s) ==
    IF s = <<>> THEN 0
    ELSE 10 * DigitsValue(SubSeq(s, 1, Len(s) - 1)) + DigitVal(s[Len(s)])

\* int(s) of a str: surrounding blanks stripped, an optional sign, then one
\* or more decimal digits; anything else is a ValueError.
ParseInt(s) ==
    LET t == RStrip(LStrip(s))
        signed == t # <<>> /\ Head(t) \in {"-", "+"}
        body == IF signed THEN Tail(t) ELSE t
        ok == body # <<>> /\ \A i \in 1..Len(body) : body[i] \in Digits
    IN  IF ok
        THEN [ok |-> TRUE,
              n |-> IF signed /\ Head(t) = "-" THEN 0 - DigitsValue(body)
                    ELSE DigitsValue(body)]
        ELSE [ok |-> FALSE, n |-> 0]

RECURSIVE NatToStr(_)
NatToStr(n) ==
    IF n < 10 THEN <<DigitChar(n)>>
    ELSE Append(NatToStr(n \div 10), DigitChar(n % 10))

\* str(n) of an int
IntToStr(n) == IF n < 0 THEN <<"-">> \o NatToStr(0 - n) ELSE NatToStr(n)

\* int(v): the value, or the exception it raises
IntOf(v) ==
    CASE v.t = "int" -> [raised |-> "", n |-> v.n]
      [] v.t = "str" ->
            LET p == ParseInt(v.s)
            IN  IF p.ok THEN [raised |-> "", n |-> p.n]
                ELSE [raised |-> "ValueError", n |-> 0]
      [] OTHER -> [raised |-> "TypeError", n |-> 0]

---------------------------------------------------------------------------
(* construct_metadata_filter.                                              *)

\* Python None as an argument or a return value
NoneObj == [kind |-> "None"]

ExtractedEntitiesObj(es) == [kind |-> "ExtractedEntities", entities |-> es]

NoFilter == [kind |-> "None", andAll |-> <<>>]
Filter(children) == [kind |-> "dict", andAll |-> children]

EqualsPredicate(v) == [op |-> "equals", key |-> "Publisher", value |-> v]
GtePredicate(n) ==
    [op |-> "greaterThanOrEquals", key |-> "Year", value |-> IntVal(n)]

\* entity.Publisher and entity.Publisher != 'unknown'
PublisherUsable(entity) ==
    Truthy(entity.Publisher) /\ entity.Publisher # StrVal(Unknown)

\* entity.Year and entity.Year != 'unknown'
YearUsable(entity) ==
    Truthy(entity.Year) /\ entity.Year # StrVal(Unknown)

\* a compiler that reads the last entity instead of the first
LastEntity(ee) == ee.entities[Len(ee.entities)]

\* entity = extracted_entities.entities[0]
FirstEntity(ee) == ee.entities[1]

\* a compiler that returns the conjunction even when it has no children
ReturnFilterUnchecked(andAll) == Filter(andAll)

\* return metadata_filter if metadata_filter["andAll"] else None
ReturnFilter(andAll) == IF andAll # <<>> THEN Filter(andAll) ELSE NoFilter

\* a children list that lives outside the function and is left as the last
\* call filled it
LeftoverAndAll == metadata_filter.andAll

\* metadata_filter = {"andAll": []}
FreshAndAll == <<>>

\* the whole function: [raised |-> exception or "", value |-> returned filter]
construct_metadata_filter(ee) ==
    IF ee.kind = "None" \/ ee.entities = <<>>
    THEN [raised |-> "", value |-> NoFilter]
    ELSE
      LET entity == FirstEntity(ee)
          afterPublisher ==
              IF PublisherUsable(entity)
              THEN Append(FreshAndAll, EqualsPredicate(entity.Publisher))
              ELSE FreshAndAll
          year == IntOf(entity.Year)
          afterYear ==
              IF YearUsable(entity)
              THEN Append(afterPublisher, GtePredicate(year.n))
              ELSE afterPublisher
      IN  IF YearUsable(entity) /\ year.raised # ""
          THEN [raised |-> year.raised, value |-> NoFilter]
          ELSE [raised |-> "", value |-> ReturnFilter(afterYear)]

---------------------------------------------------------------------------
(* Entity and ExtractedEntities (pydantic models).                         *)
(* A raw entity is a JSON object: a sequence of items [k, v] with distinct *)
(* keys, in insertion order.                                               *)

Item(k, v) == [k |-> k, v |-> v]

\* order of the key strings under Python's str comparison
KeyRank(k) ==
    CASE k = "Extra" -> 1 [] k = "Publisher" -> 2 [] k = "Year" -> 3

\* (k1, v1) < (k2, v2) for items of one dict: the keys differ, so the
\* values are never compared
ItemLess(a, b) == KeyRank(a.k) < KeyRank(b.k)

RECURSIVE InsertSorted(_, _)
InsertSorted(x, s) ==
    IF s = <<>> THEN <<x>>
    ELSE IF ItemLess(x, Head(s)) THEN <<x>> \o s
    ELSE <<Head(s)>> \o InsertSorted(x, Tail(s))

RECURSIVE SortedFrom(_, _)
SortedFrom(items, acc) ==
    IF items = <<>> THEN acc
    ELSE SortedFrom(Tail(items), InsertSorted(Head(items), acc))

\* a validator that builds the tuple without sorting the items
UnsortedItems(entity) == entity

\* tuple(sorted(entity.items()))
SortedItems(entity) == SortedFrom(entity, <<>>)

HasKey(d, k) == \E i \in DOMAIN d : d[i].k = k

\* d.get(k): None when the key is missing
Get(d, k) ==
    IF HasKey(d, k) THEN d[CHOOSE i \in DOMAIN d : d[i].k = k].v ELSE NoneVal

\* the loop of remove_duplicates over what is left of entities
RECURSIVE RemoveDuplicatesLoop(_, _, _)
RemoveDuplicatesLoop(entities, seen, unique) ==
    IF entities = <<>> THEN [raised |-> "", value |-> unique]
    ELSE
      LET entity_tuple == SortedItems(Head(entities))
      IN  IF \E i \in DOMAIN entity_tuple : ~Hashable(entity_tuple[i].v)
          THEN [raised |-> "TypeError", value |-> <<>>]
          ELSE IF entity_tuple \notin seen
          THEN RemoveDuplicatesLoop(Tail(entities), seen \cup {entity_tuple},
                                    Append(unique, entity_tuple))
          ELSE RemoveDuplicatesLoop(Tail(entities), seen, unique)

\* ExtractedEntities.remove_duplicates (validator, pre=True)
remove_duplicates(entities) == RemoveDuplicatesLoop(entities, {}, <<>>)

\* Publisher: Optional[str] -- None stays None, a str is kept, a number is
\* turned into its str, anything else is an error
PublisherField(v) ==
    CASE v.t = "None" -> [raised |-> "", value |-> NoneVal]
      [] v.t = "str"  -> [raised |-> "", value |-> v]
      [] v.t = "int"  -> [raised |-> "", value |-> StrVal(IntToStr(v.n))]
      [] OTHER        -> [raised |-> "ValidationError", value |-> NoneVal]

\* a Year validation that lets a string it cannot convert through as None
YearFieldLenient(v) ==
    IF v.t = "int" THEN [raised |-> "", value |-> v]
    ELSE IF v.t = "str" /\ ParseInt(v.s).ok
    THEN [raised |-> "", value |-> IntVal(ParseInt(v.s).n)]
    ELSE [raised |-> "", value |-> NoneVal]

\* a Year validation that accepts the sentinel string as it is
YearFieldPassSentinel(v) ==
    CASE v.t = "None" -> [raised |-> "", value |-> NoneVal]
      [] v.t = "int"  -> [raised |-> "", value |-> v]
      [] v = StrVal(Unknown) -> [raised |-> "", value |-> v]
      [] OTHER ->
            LET c == IntOf(v)
            IN  IF c.raised = "" THEN [raised |-> "", value |-> IntVal(c.n)]
                ELSE [raised |-> "ValidationError", value |-> NoneVal]

\* Year: Optional[int] -- None stays None, an int is kept, anything else
\* goes through int() and is an error when int() raises
YearField(v) ==
    CASE v.t = "None" -> [raised |-> "", value |-> NoneVal]
      [] v.t = "int"  -> [raised |-> "", value |-> v]
      [] OTHER ->
            LET c == IntOf(v)
            IN  IF c.raised = "" THEN [raised |-> "", value |-> IntVal(c.n)]
                ELSE [raised |-> "ValidationError", value |-> NoneVal]

\* Entity(**d): unknown keys are ignored, missing fields are None
EntityOf(d) ==
    LET p == PublisherField(Get(d, "Publisher"))
        y == YearField(Get(d, "Year"))
    IN  IF p.raised # "" \/ y.raised # ""
        THEN [raised |-> "ValidationError",
              value |-> [Publisher |-> NoneVal, Year |-> NoneVal]]
        ELSE [raised |-> "",
              value |-> [Publisher |-> p.value, Year |-> y.value]]

\* a tool input: the keys it holds and the value under "entities"
Payload(keys, entities) == [keys |-> keys, entities |-> entities]

\* ExtractedEntities.parse_obj(obj):
\* [raised, unique (what remove_duplicates returned), value (the model)]
parse_obj(obj) ==
    IF "entities" \notin obj.keys
    THEN [raised |-> "ValidationError", unique |-> <<>>, value |-> NoneObj]
    ELSE
      LET u == remove_duplicates(obj.entities)
          es == [i \in DOMAIN u.value |-> EntityOf(u.value[i])]
      IN  IF u.raised # ""
          THEN [raised |-> "ValidationError", unique |-> <<>>, value |-> NoneObj]
          ELSE IF \E i \in DOMAIN es : es[i].raised # ""
          THEN [raised |-> "ValidationError", unique |-> u.value,
                value |-> NoneObj]
          ELSE [raised |-> "", unique |-> u.value,
                value |-> ExtractedEntitiesObj(
                              [i \in DOMAIN es |-> es[i].value])]

---------------------------------------------------------------------------
(* extract_entities: the scan of the response and the parse.               *)

TextBlock == [kind |-> "text", name |-> "", input |-> Payload({}, <<>>)]
ToolUseBlock(name, input) == [kind |-> "toolUse", name |-> name, input |-> input]

\* "toolUse" in content and content['toolUse']['name'] == "extract_entities"
MatchesTool(content, props) ==
    content.kind = "toolUse" /\ content.name = "extract_entities"

\* the for loop with its break: the input of the first matching block
RECURSIVE ScanContent(_, _)
ScanContent(content, props) ==
    IF content = <<>> THEN NoneObj
    ELSE IF MatchesTool(Head(content), props) THEN Head(content).input
    ELSE ScanContent(Tail(content), props)

\* a test `if json_entities is not None:`
JsonNotNone(j) == j # NoneObj

\* `if json_entities:` -- None and the empty dict are falsy
JsonTruthy(j) == j # NoneObj /\ j.keys # {}

---------------------------------------------------------------------------
(* The filter compiler called on its own: the caller passes None or an    *)
(* object with an entities list, whose members carry Publisher and Year.  *)

Rockstar == <<"R">>

PublisherValues ==
    {NoneVal, StrVal(Unknown), StrVal(<<>>), StrVal(Rockstar)}

YearValues ==
    {NoneVal, StrVal(Unknown), IntVal(0), IntVal(7), StrVal(<<"7">>),
     StrVal(<<" ", "1", "2">>), StrVal(<<"x">>), StrVal(<<>>)}

EntityValues == [Publisher : PublisherValues, Year : YearValues]

SeqsUpTo(S, n) == UNION {[1..k -> S] : k \in 0..n}

CompileInputs ==
    {NoneObj} \cup {ExtractedEntitiesObj(es) : es \in SeqsUpTo(EntityValues, MaxEntities)}

Idle ==
    /\ text = ""
    /\ tool_properties = [tool_name |-> "extract_entities"]
    /\ response = <<>>
    /\ json_entities = NoneObj
    /\ unique_entities = <<>>
    /\ calls = <<>>
    /\ result = NoneObj
    /\ compiled = <<>>
    /\ no_filter_policy = "proceed_unfiltered"

InitCompile ==
    /\ pc = "compile_call"
    /\ extracted_entities \in CompileInputs
    /\ metadata_filter = NoFilter
    /\ raised = ""
    /\ Idle

\* metadata_filter = construct_metadata_filter(extracted_entities)
CompileCall ==
    /\ pc \in {"compile_call", "extract_returned"}
    /\ LET r == construct_metadata_filter(extracted_entities)
       IN  /\ metadata_filter' = r.value
           /\ raised' = r.raised
           /\ compiled' = Append(compiled, r)
           /\ pc' = IF r.raised = "" THEN "compile_returned" ELSE "compile_raised"
    /\ UNCHANGED <<no_filter_policy, text, tool_properties, response,
                   json_entities, unique_entities, extracted_entities, calls,
                   result>>

\* the caller compiles the same ExtractedEntities once more
CompileAgain ==
    /\ pc \in {"compile_returned", "compile_raised"}
    /\ Len(compiled) < MaxCompiles
    /\ LET r == construct_metadata_filter(extracted_entities)
       IN  /\ metadata_filter' = r.value
           /\ raised' = r.raised
           /\ compiled' = Append(compiled, r)
           /\ pc' = IF r.raised = "" THEN "compile_returned" ELSE "compile_raised"
    /\ UNCHANGED <<no_filter_policy, text, tool_properties, response,
                   json_entities, unique_entities, extracted_entities, calls,
                   result>>

NextCompile == CompileCall \/ CompileAgain

SpecCompile == InitCompile /\ [][NextCompile]_vars

---------------------------------------------------------------------------
(* extract_entities and process_query as processes.                        *)

\* bedrock.converse(...) as issued by extract_entities
ConverseRequest(t, props) ==
    [api |-> "converse",
     inferenceConfig |-> [temperature |-> 0, maxTokens |-> 4000],
     toolConfig |-> [name |-> props.tool_name],
     messages |-> <<[role |-> "user", text |-> t]>>]

\* bedrock_agent_runtime.retrieve(...) as issued by process_query
RetrieveRequest(t, f) ==
    [api |-> "retrieve",
     knowledgeBaseId |-> "kb_id",
     retrievalConfiguration |-> [vectorSearchConfiguration |-> [filter |-> f]],
     retrievalQuery |-> [text |-> t]]

\* extract_entities, first half: the model call is issued
ConverseCall ==
    /\ pc = "start"
    /\ calls' = Append(calls, ConverseRequest(text, tool_properties))
    /\ pc' = "converse_called"
    /\ UNCHANGED <<no_filter_policy, compiled,
                   text, tool_properties, response, json_entities,
                   unique_entities, extracted_entities, metadata_filter,
                   raised, result>>

\* raw entities a model returns for a query
ModelDicts ==
    {<<Item("Publisher", StrVal(Rockstar)), Item("Year", IntVal(7))>>,
     <<Item("Year", IntVal(7)), Item("Publisher", StrVal(Rockstar))>>,
     <<Item("Publisher", StrVal(Unknown)), Item("Year", IntVal(7))>>,
     <<Item("Publisher", StrVal(Unknown))>>,
     <<Item("Publisher", StrVal(<<>>)), Item("Year", IntVal(0))>>,
     <<Item("Publisher", StrVal(Rockstar)), Item("Year", StrVal(Unknown))>>}

\* tool inputs a model returns: {}, {"entities": []}, one entity, and the
\* lists of two that start with the Rockstar entity
ModelPayloads ==
    {Payload({}, <<>>), Payload({"entities"}, <<>>)}
    \cup {Payload({"entities"}, <<d>>) : d \in ModelDicts}
    \cup {Payload({"entities"},
                  <<<<Item("Publisher", StrVal(Rockstar)), Item("Year", IntVal(7))>>, d>>)
            : d \in ModelDicts}

\* the content blocks a model may answer with when offered the one tool
ModelBlocks(props) ==
    {TextBlock} \cup {ToolUseBlock(props.tool_name, p) : p \in ModelPayloads}

ModelResponses(props) == SeqsUpTo(ModelBlocks(props), MaxBlocks)

\* the model call returns a message
ConverseReturn ==
    /\ pc = "converse_called"
    /\ \E r \in ModelResponses(tool_properties) : response' = r
    /\ pc' = "converse_returned"
    /\ UNCHANGED <<no_filter_policy, compiled,
                   text, tool_properties, json_entities, unique_entities,
                   extracted_entities, metadata_filter, calls, raised, result>>

\* the model call raises (endpoint unreachable or erroring)
ConverseRaise ==
    /\ pc = "converse_called"
    /\ raised' = "TransportError"
    /\ pc' = "converse_raised"
    /\ UNCHANGED <<no_filter_policy, compiled,
                   text, tool_properties, response, json_entities,
                   unique_entities, extracted_entities, metadata_filter,
                   calls, result>>

\* an extract_entities that catches the validation error, reports no
\* entities and lets the run go on
ParseResponseSwallow ==
    /\ pc = "converse_returned"
    /\ LET j == ScanContent(response, tool_properties)
           parsed == parse_obj(j)
       IN  /\ json_entities' = j
           /\ unique_entities' = IF JsonTruthy(j) THEN parsed.unique ELSE <<>>
           /\ extracted_entities' =
                 IF JsonTruthy(j) /\ parsed.raised = "" THEN parsed.value
                 ELSE NoneObj
           /\ raised' = ""
           /\ pc' = "extract_returned"
    /\ UNCHANGED <<no_filter_policy, compiled,
                   text, tool_properties, response, metadata_filter, calls,
                   result>>

\* extract_entities, second half: scan the content, parse the tool input
ParseResponse ==
    /\ pc = "converse_returned"
    /\ LET j == ScanContent(response, tool_properties)
           parsed == parse_obj(j)
       IN  /\ json_entities' = j
           /\ IF JsonTruthy(j)
              THEN /\ unique_entities' = parsed.unique
                   /\ extracted_entities' = parsed.value
                   /\ raised' = parsed.raised
                   /\ pc' = IF parsed.raised = "" THEN "extract_returned"
                            ELSE "extract_raised"
              ELSE /\ unique_entities' = <<>>
                   /\ extracted_entities' = NoneObj
                   /\ raised' = ""
                   /\ pc' = "extract_returned"
    /\ UNCHANGED <<no_filter_policy, compiled,
                   text, tool_properties, response, metadata_filter, calls,
                   result>>

\* a process_query that issues the retrieval request before compiling
RetrieveCallEarly ==
    /\ pc = "extract_returned"
    /\ calls' = Append(calls, RetrieveRequest(text, metadata_filter))
    /\ pc' = "retrieve_called"
    /\ UNCHANGED <<no_filter_policy, compiled,
                   text, tool_properties, response, json_entities,
                   unique_entities, extracted_entities, metadata_filter,
                   raised, result>>

\* a filter the caller supplies for queries that yield none
DefaultFilter == Filter(<<EqualsPredicate(StrVal(Rockstar))>>)

\* a process_query that handles the no-filter case as the caller selected
RetrieveCallWithPolicy ==
    /\ pc = "compile_returned"
    /\ IF metadata_filter = NoFilter /\ no_filter_policy = "reject"
       THEN /\ raised' = "NoMetadataExtracted"
            /\ pc' = "rejected"
            /\ calls' = calls
       ELSE /\ raised' = raised
            /\ pc' = "retrieve_called"
            /\ calls' = Append(calls, RetrieveRequest(text,
                  IF metadata_filter = NoFilter
                     /\ no_filter_policy = "default_filter"
                  THEN DefaultFilter ELSE metadata_filter))
    /\ UNCHANGED <<no_filter_policy, compiled,
                   text, tool_properties, response, json_entities,
                   unique_entities, extracted_entities, metadata_filter,
                   result>>

\* process_query issues the retrieval request
RetrieveCall ==
    /\ pc = "compile_returned"
    /\ calls' = Append(calls, RetrieveRequest(text, metadata_filter))
    /\ pc' = "retrieve_called"
    /\ UNCHANGED <<no_filter_policy, compiled,
                   text, tool_properties, response, json_entities,
                   unique_entities, extracted_entities, metadata_filter,
                   raised, result>>

\* the retrieval call returns and process_query returns its response
RetrieveReturn ==
    /\ pc = "retrieve_called"
    /\ result' = [kind |-> "RetrievalResponse"]
    /\ pc' = "done"
    /\ UNCHANGED <<no_filter_policy, compiled,
                   text, tool_properties, response, json_entities,
                   unique_entities, extracted_entities, metadata_filter,
                   calls, raised>>

\* the retrieval call raises
RetrieveRaise ==
    /\ pc = "retrieve_called"
    /\ raised' = "TransportError"
    /\ pc' = "retrieve_raised"
    /\ UNCHANGED <<no_filter_policy, compiled,
                   text, tool_properties, response, json_entities,
                   unique_entities, extracted_entities, metadata_filter,
                   calls, result>>

Texts == {"games by Rockstar Games after 2010", "all games"}

\* the ways the notebook names to handle a query that yields no filter
Policies == {"proceed_unfiltered", "default_filter", "reject"}

ToolNames == {"extract_entities", "get_game_metadata"}

\* process_query(text, tool_properties) is called
Init ==
    /\ pc = "start"
    /\ text \in Texts
    /\ tool_properties \in [tool_name : ToolNames]
    /\ response = <<>>
    /\ json_entities = NoneObj
    /\ unique_entities = <<>>
    /\ extracted_entities = NoneObj
    /\ metadata_filter = NoFilter
    /\ calls = <<>>
    /\ raised = ""
    /\ result = NoneObj
    /\ compiled = <<>>
    /\ no_filter_policy \in Policies

Next ==
    \/ ConverseCall
    \/ ConverseReturn
    \/ ConverseRaise
    \/ ParseResponse
    \/ CompileCall
    \/ RetrieveCall
    \/ RetrieveReturn
    \/ RetrieveRaise

Spec == Init /\ [][Next]_vars

---------------------------------------------------------------------------
(* extract_entities after the model call has returned, over every tool     *)
(* input built from the raw values below.                                  *)

RawPublisherValues == {NoneVal, StrVal(Rockstar), IntVal(7), ListVal}
RawYearValues == {IntVal(7), StrVal(<<"7">>), StrVal(<<"x">>)}
RawExtraValues == {IntVal(1), ListVal}

RawValues(k) ==
    CASE k = "Publisher" -> RawPublisherValues
      [] k = "Year"      -> RawYearValues
      [] k = "Extra"     -> RawExtraValues

Keys == {"Extra", "Publisher", "Year"}

\* the key orders a JSON object arrives in: sorted, or Year before Publisher
KeyOrders ==
    {<<>>, <<"Extra">>, <<"Publisher">>, <<"Year">>,
     <<"Extra", "Publisher">>, <<"Extra", "Year">>,
     <<"Publisher", "Year">>, <<"Year", "Publisher">>,
     <<"Extra", "Publisher", "Year">>}

\* every dict with one of these key orders and values of the key's pool
DictsOver(order) ==
    {d \in [DOMAIN order -> [k : Keys, v : RawPublisherValues \cup RawYearValues
                                              \cup RawExtraValues]] :
        \A i \in DOMAIN order : d[i].k = order[i] /\ d[i].v \in RawValues(order[i])}

RawDicts == UNION {DictsOver(order) : order \in KeyOrders}

RawPayloads ==
    {Payload({}, <<>>), Payload({"note"}, <<>>)}
    \cup {Payload({"entities"}, es) : es \in SeqsUpTo(RawDicts, MaxEntities)}

InitExtract ==
    /\ pc = "converse_returned"
    /\ text \in {"all games"}
    /\ tool_properties = [tool_name |-> "extract_entities"]
    /\ \E p \in RawPayloads :
          response = <<TextBlock, ToolUseBlock(tool_properties.tool_name, p)>>
    /\ json_entities = NoneObj
    /\ unique_entities = <<>>
    /\ extracted_entities = NoneObj
    /\ metadata_filter = NoFilter
    /\ calls = <<ConverseRequest(text, tool_properties)>>
    /\ raised = ""
    /\ result = NoneObj
    /\ compiled = <<>>
    /\ no_filter_policy = "proceed_unfiltered"

NextExtract == ParseResponse

SpecExtract == InitExtract /\ [][NextExtract]_vars

---------------------------------------------------------------------------
(* Claims about the filter compiler, checked under SpecCompile.            *)

CompileDone == pc \in {"compile_returned", "compile_raised"}

HasEntities ==
    extracted_entities.kind = "ExtractedEntities"
    /\ extracted_entities.entities # <<>>

\* number of predicates of the returned filter on metadata key k
PredicateCount(k) ==
    Cardinality({i \in DOMAIN metadata_filter.andAll :
                    metadata_filter.andAll[i].key = k})

IsSentinelOrAbsent(v) == v = NoneVal \/ v = StrVal(Unknown)

\* C1: sentinel law.  Whenever the compiler returns for a non-empty entity
\* list, each field of the first entity that is absent or exactly "unknown"
\* has no predicate in the filter, and each field holding any other value
\* (0 and the empty string included) has exactly one.
C1_SentinelLaw ==
    (pc = "compile_returned" /\ HasEntities) =>
        LET e == extracted_entities.entities[1]
        IN  /\ PredicateCount("Publisher") =
                   (IF IsSentinelOrAbsent(e.Publisher) THEN 0 ELSE 1)
            /\ PredicateCount("Year") =
                   (IF IsSentinelOrAbsent(e.Year) THEN 0 ELSE 1)

\* C2: first-entity-only law.  For a list of two or more entities the
\* outcome of the compiler (filter or exception) is the outcome for the
\* list holding the first entity alone, whatever the later entities are.
C2_FirstEntityOnly ==
    (CompileDone /\ HasEntities /\ Len(extracted_entities.entities) >= 2) =>
        LET alone == construct_metadata_filter(
                        ExtractedEntitiesObj(<<extracted_entities.entities[1]>>))
        IN  metadata_filter = alone.value /\ raised = alone.raised

\* C2 witness: two distinct entities that compile to different filters on
\* their own, and the filter returned is the first one's.
C2_Witness ==
    /\ pc = "compile_returned"
    /\ HasEntities
    /\ Len(extracted_entities.entities) >= 2
    /\ metadata_filter.kind = "dict"
    /\ LET second == construct_metadata_filter(
                        ExtractedEntitiesObj(<<extracted_entities.entities[2]>>))
       IN  second.raised = "" /\ second.value.kind = "dict"
           /\ second.value # metadata_filter

\* C3: the compiler never returns a conjunction without children: its
\* result is none or an andAll of at least one predicate; None and an empty
\* entity list give none, and so does a first entity whose fields are all
\* absent or "unknown".
C3_NoEmptyConjunction ==
    CompileDone =>
        /\ \/ metadata_filter = NoFilter
           \/ metadata_filter.kind = "dict" /\ Len(metadata_filter.andAll) >= 1
        /\ ~HasEntities => (metadata_filter = NoFilter /\ raised = "")
        /\ (HasEntities
            /\ IsSentinelOrAbsent(extracted_entities.entities[1].Publisher)
            /\ IsSentinelOrAbsent(extracted_entities.entities[1].Year))
           => (metadata_filter = NoFilter /\ raised = "")

\* C3 witness: a first entity with no usable field has been compiled.
C3_Witness ==
    /\ pc = "compile_returned"
    /\ HasEntities
    /\ extracted_entities.entities[1] =
           [Publisher |-> StrVal(Unknown), Year |-> NoneVal]
    /\ metadata_filter = NoFilter

\* C8: coercion failure.  Compiling a first entity whose Year is a string
\* that is neither "unknown" nor a number raises an error and returns no
\* filter; the value is never treated as absent.
C8_CoercionFailure ==
    (CompileDone /\ HasEntities
     /\ extracted_entities.entities[1].Year.t = "str"
     /\ extracted_entities.entities[1].Year # StrVal(Unknown)
     /\ ~ParseInt(extracted_entities.entities[1].Year.s).ok)
    => (pc = "compile_raised" /\ raised # "" /\ metadata_filter = NoFilter)

---------------------------------------------------------------------------
(* Claims about ExtractedEntities and extract_entities, checked under      *)
(* SpecExtract (every tool input) or Spec (whole runs of process_query).   *)

ParseDone == pc \notin {"start", "converse_called", "converse_raised",
                        "converse_returned"}

\* the items of a raw entity, whatever their order
ItemSet(d) == {d[i] : i \in DOMAIN d}

\* remove_duplicates ran to its end on the entities of json_entities
Deduplicated ==
    /\ ParseDone
    /\ JsonTruthy(json_entities)
    /\ "entities" \in json_entities.keys
    /\ \A i \in DOMAIN json_entities.entities :
          \A k \in DOMAIN json_entities.entities[i] :
             Hashable(json_entities.entities[i][k].v)

\* positions of the payloads that are the first with their value-set
FirstOccurrences(es) ==
    {i \in DOMAIN es : \A j \in 1..(i - 1) : ItemSet(es[j]) # ItemSet(es[i])}

\* C4: deduplication.  The sequence remove_duplicates hands on holds one
\* representative per distinct value-set of the payloads given (field
\* order ignored), the first occurrences in their original order.
C4_Deduplication ==
    Deduplicated =>
        LET es == json_entities.entities
            firsts == FirstOccurrences(es)
        IN  /\ Len(unique_entities) = Cardinality(firsts)
            /\ \A i \in firsts :
                  ItemSet(unique_entities[Cardinality({j \in firsts : j <= i})])
                     = ItemSet(es[i])

\* C4 witness: two payloads with the same values in a different field
\* order went in and one representative came out.
C4_Witness ==
    /\ Deduplicated
    /\ Len(json_entities.entities) = 2
    /\ json_entities.entities[1] # json_entities.entities[2]
    /\ ItemSet(json_entities.entities[1]) = ItemSet(json_entities.entities[2])
    /\ Len(json_entities.entities[1]) >= 2
    /\ Len(unique_entities) = 1

\* C5: no two entities of an ExtractedEntities that extract_entities
\* returns have both fields (Publisher, Year) equal.
C5_NoStructuralDuplicates ==
    (pc = "extract_returned" /\ extracted_entities.kind = "ExtractedEntities") =>
        \A i, j \in DOMAIN extracted_entities.entities :
            i # j => extracted_entities.entities[i] # extracted_entities.entities[j]

\* extract_entities took a tool input that holds an entities list
TookEntities ==
    /\ ParseDone
    /\ JsonTruthy(json_entities)
    /\ "entities" \in json_entities.keys

\* a field whose JSON type is not the declared one
TypeMismatched(d) ==
    \/ HasKey(d, "Publisher") /\ Get(d, "Publisher").t \notin {"None", "str"}
    \/ HasKey(d, "Year") /\ Get(d, "Year").t \notin {"None", "int"}

\* a field whose value cannot be turned into the declared type, or a value
\* (under any key) that cannot be hashed
Uncoercible(d) ==
    \/ \E i \in DOMAIN d : ~Hashable(d[i].v)
    \/ Get(d, "Publisher").t \notin {"None", "str", "int"}
    \/ Get(d, "Year").t \notin {"None", "int", "str"}
    \/ Get(d, "Year").t = "str" /\ ~ParseInt(Get(d, "Year").s).ok

FailedClosed ==
    /\ pc = "extract_raised"
    /\ raised = "ValidationError"
    /\ extracted_entities = NoneObj

C6_FirstMatchingBlock ==
    ParseDone =>
        LET matching == {i \in DOMAIN response :
                            /\ response[i].kind = "toolUse"
                            /\ response[i].name = tool_properties.tool_name}
        IN  IF matching = {}
            THEN json_entities = NoneObj /\ extracted_entities = NoneObj
                 /\ raised \in {"", "TransportError"}
            ELSE json_entities =
                    response[CHOOSE i \in matching : \A j \in matching : i <= j].input

RetrieveIssued == \E i \in DOMAIN calls : calls[i].api = "retrieve"

\* C9: process_query calls the model, compiles, then retrieves.  A
\* retrieval request is issued only once the filter is compiled and carries
\* that filter; a run that returns has made exactly one model call followed
\* by exactly one retrieval call, both with the caller's query text.
C9_StrictOrder ==
    /\ RetrieveIssued =>
          /\ pc \in {"retrieve_called", "retrieve_raised", "done"}
          /\ Len(calls) = 2
          /\ calls[1].api = "converse"
          /\ calls[2].api = "retrieve"
          /\ construct_metadata_filter(extracted_entities).raised = ""
          /\ calls[2].retrievalConfiguration.vectorSearchConfiguration.filter
                = construct_metadata_filter(extracted_entities).value
    /\ pc \in {"compile_returned", "compile_raised"} =>
          (Len(calls) = 1 /\ calls[1].api = "converse")
    /\ pc = "done" =>
          /\ Len(calls) = 2
          /\ calls[1].api = "converse"
          /\ calls[1].messages = <<[role |-> "user", text |-> text]>>
          /\ calls[2].api = "retrieve"
          /\ calls[2].retrievalQuery.text = text
          /\ result.kind = "RetrievalResponse"

\* C9 witness: a run returned after retrieving with a compiled filter.
C9_Witness ==
    /\ pc = "done"
    /\ Len(calls) = 2
    /\ metadata_filter.kind = "dict"
    /\ Len(metadata_filter.andAll) = 2
    /\ text = "games by Rockstar Games after 2010"

\* C10: when the compiled filter is none, the retrieval request holds no
\* filter key at all.
C10_NoFilterKeyWhenNone ==
    \A i \in DOMAIN calls :
        (calls[i].api = "retrieve" /\ metadata_filter = NoFilter) =>
            "filter" \notin
                DOMAIN calls[i].retrievalConfiguration.vectorSearchConfiguration

---------------------------------------------------------------------------
(* Claims about failures and edge cases of process_query, under Spec.      *)

CallCount(api) == Cardinality({i \in DOMAIN calls : calls[i].api = api})

RaisedStates ==
    {"converse_raised", "extract_raised", "compile_raised", "retrieve_raised"}

\* C11: every failure reaches the caller of process_query and ends the
\* run: a failed model call, an invalid tool input, a failed compilation
\* and a failed retrieval call each leave the run stopped with that error
\* and no result; after a failure of extraction or compilation no retrieval
\* request has been issued, and no call is ever issued twice.
C11_FailuresSurface ==
    /\ pc \in RaisedStates <=> raised # ""
    /\ raised # "" => (result = NoneObj /\ ~ENABLED Next)
    /\ pc = "converse_raised" =>
          (raised = "TransportError" /\ Len(calls) = 1 /\ ~RetrieveIssued)
    /\ pc = "extract_raised" =>
          (raised = "ValidationError" /\ Len(calls) = 1 /\ ~RetrieveIssued)
    /\ pc = "compile_raised" => (Len(calls) = 1 /\ ~RetrieveIssued)
    /\ pc = "retrieve_raised" => (raised = "TransportError" /\ Len(calls) = 2)
    /\ (ParseDone /\ JsonTruthy(json_entities)
        /\ parse_obj(json_entities).raised # "")
          => (pc = "extract_raised" /\ raised = "ValidationError")
    /\ CallCount("converse") <= 1
    /\ CallCount("retrieve") <= 1

\* C11 witness: a run stopped by the validation error of a tool input that
\* holds a valid entity first, with the model call as its only request.
C11_Witness ==
    /\ pc = "extract_raised"
    /\ raised = "ValidationError"
    /\ Len(json_entities.entities) = 2
    /\ calls = <<ConverseRequest(text, tool_properties)>>

\* C13: a first entity whose Publisher is a string other than "unknown"
\* and whose Year is an integer compiles to an andAll of exactly two
\* children: equals on Publisher with the string, then greaterThanOrEquals
\* on Year with the integer.
C13_TwoPredicatesInOrder ==
    (CompileDone /\ HasEntities
     /\ extracted_entities.entities[1].Publisher.t = "str"
     /\ extracted_entities.entities[1].Publisher # StrVal(Unknown)
     /\ extracted_entities.entities[1].Year.t = "int")
    => /\ pc = "compile_returned"
       /\ metadata_filter =
            [kind |-> "dict",
             andAll |->
               <<[op |-> "equals", key |-> "Publisher",
                  value |-> extracted_entities.entities[1].Publisher],
                 [op |-> "greaterThanOrEquals", key |-> "Year",
                  value |-> extracted_entities.entities[1].Year]>>]

\* the tool input taken holds an entity whose Year is the string "unknown"
SentinelYearTaken ==
    /\ ParseDone
    /\ JsonTruthy(json_entities)
    /\ "entities" \in json_entities.keys
    /\ \E i \in DOMAIN json_entities.entities :
          Get(json_entities.entities[i], "Year") = StrVal(Unknown)

\* C15: a tool input with an entity whose Year is the string "unknown" is
\* rejected by validation: the run stops with a validation error and no
\* retrieval request; so no entity that extract_entities returns has Year
\* equal to "unknown" (its Year is None or an integer).
C15_SentinelYearRejected ==
    /\ SentinelYearTaken =>
          /\ pc = "extract_raised"
          /\ raised = "ValidationError"
          /\ extracted_entities = NoneObj
          /\ ~RetrieveIssued
    /\ extracted_entities.kind = "ExtractedEntities" =>
          \A i \in DOMAIN extracted_entities.entities :
             /\ extracted_entities.entities[i].Year # StrVal(Unknown)
             /\ extracted_entities.entities[i].Year.t \in {"None", "int"}

\* C15 witness: the run stopped on the input [{Publisher: "R", Year: "unknown"}].
C15_Witness ==
    /\ SentinelYearTaken
    /\ Len(json_entities.entities) = 1
    /\ Get(json_entities.entities[1], "Publisher") = StrVal(Rockstar)
    /\ pc = "extract_raised"

\* the model invoked the tool with the empty object as its input
EmptyInputTaken ==
    /\ ParseDone
    /\ json_entities = Payload({}, <<>>)

\* C16: when the tool input taken is the empty object, extract_entities
\* returns None without validating anything and without an error, and the
\* run goes on to compile no filter and to issue the retrieval request with
\* no filter.
C16_EmptyInputIsNoExtraction ==
    EmptyInputTaken =>
        /\ extracted_entities = NoneObj
        /\ unique_entities = <<>>
        /\ pc \in {"extract_returned", "compile_returned", "retrieve_called",
                   "retrieve_raised", "done"}
        /\ raised # "" => (pc = "retrieve_raised" /\ raised = "TransportError")
        /\ pc = "extract_returned" => ENABLED CompileCall
        /\ pc # "extract_returned" => metadata_filter = NoFilter
        /\ pc = "compile_returned" => ENABLED RetrieveCall
        /\ RetrieveIssued =>
              calls[2].retrievalConfiguration.vectorSearchConfiguration.filter
                 = NoFilter

\* C16 witness: a run that took the empty input of a tool invocation and
\* returned the retrieval response.
C16_Witness ==
    /\ EmptyInputTaken
    /\ \E i \in DOMAIN response : response[i].kind = "toolUse"
    /\ pc = "done"
    /\ Len(calls) = 2

\* the run compiled the extraction result to no filter
NoFilterProduced ==
    /\ pc \in {"compile_returned", "retrieve_called", "retrieve_raised",
               "done", "rejected"}
    /\ compiled # <<>>
    /\ compiled[1].value = NoFilter

RetrieveFilter ==
    calls[2].retrievalConfiguration.vectorSearchConfiguration.filter

\* C12 as stated: when no filter is produced the run follows the mode the
\* caller selected: proceed unfiltered (retrieval with no filter), default
\* filter (retrieval with the caller's filter), or reject (the condition
\* no-metadata-extracted is raised and no retrieval request is issued).
C12_PolicySelectable ==
    NoFilterProduced =>
        /\ no_filter_policy = "proceed_unfiltered" =>
              (RetrieveIssued => RetrieveFilter = NoFilter)
        /\ no_filter_policy = "default_filter" =>
              (RetrieveIssued => RetrieveFilter = DefaultFilter)
        /\ no_filter_policy = "reject" =>
              /\ ~RetrieveIssued
              /\ pc = "compile_returned" => ~ENABLED RetrieveCall

\* C12 amended: process_query has one handling of the no-filter case,
\* whatever the caller wants: it goes on to the retrieval call and passes
\* the none filter; it never substitutes a default filter and never
\* rejects the query.
C12_ProceedsUnfilteredOnly ==
    NoFilterProduced =>
        /\ pc # "rejected"
        /\ raised \in {"", "TransportError"}
        /\ pc = "compile_returned" => ENABLED RetrieveCall
        /\ RetrieveIssued => RetrieveFilter = NoFilter

\* C12 witness: the caller wanted such queries rejected, no filter was
\* produced, and the run retrieved and returned all the same.
C12_Witness ==
    /\ NoFilterProduced
    /\ no_filter_policy = "reject"
    /\ pc = "done"
    /\ RetrieveIssued

=============================================================================
